---- MODULE Spec2Model ----
(***************************************************************************)
(* A model of src/main.py, the DEX arbitrage scanner: get_quote (bounded   *)
(* retries with exponential backoff), is_pair_tradable (single probe),     *)
(* process_swap_direction (best price over the venues, in completion       *)
(* order) and main (the scan cycle).                                       *)
(*                                                                         *)
(* Prices are exact rationals <<n, d>> (d > 0, lowest terms): the Python   *)
(* code computes them in binary floating point, whose rounding is not      *)
(* modelled.                                                               *)
(*                                                                         *)
(* Record constructors list their fields in the order TLC keeps them in,   *)
(* so that a record is never reordered while two workers read it.          *)
(***************************************************************************)
EXTENDS Integers, Sequences, FiniteSets, TLC

VARIABLES gq, pr, rs, cy

vars == <<gq, pr, rs, cy>>

(***************************************************************************)
(* Bounds of the model.                                                    *)
(***************************************************************************)
MaxRetries == 3
MaxBackoff == 2
MaxHops == 2
MaxCycles == 2

(***************************************************************************)
(* Program constants.                                                      *)
(***************************************************************************)
SUPPORTED_DEXES == <<"Raydium", "Orca V2">>
TOKENS == <<"USDT", "USDC">>
DECIMALS == 1000000
PRICE_CEILING == 100
\* line 38: get_quote(..., retries=3, backoff=1)
DEFAULT_RETRIES == 3
None == "None"

Dexes == {SUPPORTED_DEXES[i] : i \in 1..Len(SUPPORTED_DEXES)}

(***************************************************************************)
(* Exact rational arithmetic.                                              *)
(***************************************************************************)
Abs(x) == IF x < 0 THEN -x ELSE x

RECURSIVE GCD(_, _)
GCD(a, b) == IF b = 0 THEN a ELSE GCD(b, a % b)

\* n/d in lowest terms with a positive denominator (d # 0)
Rat(n, d) ==
    LET g == GCD(Abs(n), Abs(d))
        s == IF d < 0 THEN -1 ELSE 1
    IN  <<(s * n) \div g, (s * d) \div g>>

Zero == <<0, 1>>
RatOfInt(n) == <<n, 1>>
RatLT(a, b) == a[1] * b[2] < b[1] * a[2]
RatLE(a, b) == a[1] * b[2] <= b[1] * a[2]
RatGT(a, b) == RatLT(b, a)
RatGE(a, b) == RatLE(b, a)
RatSub(a, b) == Rat(a[1] * b[2] - b[1] * a[2], a[2] * b[2])
RatMul(a, b) == Rat(a[1] * b[1], a[2] * b[2])
\* a / b, b # 0
RatDiv(a, b) == Rat(a[1] * b[2], a[2] * b[1])

RECURSIVE Pow2(_)
Pow2(n) == IF n = 0 THEN 1 ELSE 2 * Pow2(n - 1)

RECURSIVE SumSeq(_)
SumSeq(s) == IF s = <<>> THEN 0 ELSE Head(s) + SumSeq(Tail(s))

(***************************************************************************)
(* The upstream service's answers.  A hop of a route plan either exposes   *)
(* swapInfo.inAmount / swapInfo.outAmount as integers (ok) or is corrupt   *)
(* (swapInfo missing, or an amount that int() rejects).                    *)
(***************************************************************************)
Hop(i, o) == [ok |-> TRUE, inAmount |-> i, outAmount |-> o]
CorruptHop == [ok |-> FALSE, inAmount |-> 0, outAmount |-> 0]

\* price 1, price 100 (the ceiling), above the ceiling, price 0, a negative
\* price, a zero inAmount, and a corrupt hop
HopValues ==
    { Hop(2, 2), Hop(1, 100), Hop(1, 101), Hop(1, 0), Hop(-1, 1), Hop(0, 1),
      CorruptHop }

RECURSIVE SeqsUpTo(_, _)
SeqsUpTo(S, n) ==
    IF n = 0 THEN {<<>>}
    ELSE LET shorter == SeqsUpTo(S, n - 1)
         IN  shorter \cup {Append(s, x) : s \in {t \in shorter : Len(t) = n - 1}, x \in S}

\* a JSON body: an object (with or without "error" and "routePlan"), an
\* array, or a scalar (a number, null)
ObjectBody(err, has, plan) ==
    [shape |-> "object", error |-> err, hasRoute |-> has, routePlan |-> plan]
ArrayBody == [shape |-> "array", error |-> FALSE, hasRoute |-> FALSE, routePlan |-> <<>>]
ScalarBody == [shape |-> "scalar", error |-> FALSE, hasRoute |-> FALSE, routePlan |-> <<>>]
NoBody == [shape |-> "none", error |-> FALSE, hasRoute |-> FALSE, routePlan |-> <<>>]

\* what a call of get_quote hands to its caller: None, the parsed body, or
\* an exception that is no requests.RequestException
RetNone == [kind |-> "none", data |-> NoBody]
RetData(b) == [kind |-> "data", data |-> b]
RetRaise == [kind |-> "raise", data |-> NoBody]

\* requests.RequestException: timeout, connection error, raise_for_status
\* (non-2xx), response.json() on a malformed body (requests.JSONDecodeError)
TransportFailures == {"timeout", "connection", "status", "malformed"}

(***************************************************************************)
(* The state of a component no call of which is in progress.               *)
(***************************************************************************)
Best(price, dex) == [price |-> price, dex |-> dex]

\* lines 74-75: best_buy_price = 0, best_buy_dex = None
InitBest_first_dex == Best(Zero, SUPPORTED_DEXES[1])
InitBest == Best(Zero, None)

HttpOk(body) == [body |-> body, result |-> "ok"]
HttpFail(kind) == [body |-> NoBody, result |-> kind]

PrIdle ==
    [pc |-> "idle", input |-> None, output |-> None, requests |-> <<>>,
     outcome |-> HttpFail("none"), ret |-> "unset"]

RsIdle ==
    [pc |-> "idle", resp |-> <<>>, pending |-> {}, cur |-> None, idx |-> 0,
     best |-> InitBest, order |-> <<>>, processed |-> {}, caught |-> {},
     raised |-> FALSE]

\* a pair block or a line of the report; the formatting of the numbers
\* (6 and 4 decimals) is not modelled
Block(kind, pair, buy, sell, diff, pct) ==
    [kind |-> kind, pair |-> pair, buy |-> buy, sell |-> sell, diff |-> diff,
     pct |-> pct]
Line(kind) == Block(kind, <<>>, InitBest, InitBest, Zero, Zero)

\* main's locals at the top of the while loop (lines 140-151); tokens is the
\* list of TOKEN_MINTS' keys (line 147)
CyFresh(n, tokens) ==
    [pc |-> "probe", tokens |-> tokens, cycle |-> n, pi |-> 1, probes |-> <<>>,
     tradable_pairs |-> <<>>, dispatched |-> {}, finished |-> {},
     collected |-> {}, results |-> <<>>, ri |-> 1,
     arbitrage_opportunities |-> <<>>, log_content |-> <<Line("header")>>,
     emitted |-> 0, report |-> <<>>]

CyIdle == [CyFresh(0, TOKENS) EXCEPT !.pc = "idle"]

(***************************************************************************)
(* get_quote                                                               *)
(***************************************************************************)
QuoteBodies ==
    { ObjectBody(FALSE, TRUE, <<Hop(2, 2)>>), ObjectBody(FALSE, TRUE, <<>>),
      ObjectBody(TRUE, FALSE, <<>>), ScalarBody }

\* one HTTP attempt as the log sees it
Attempt(result, body) == [body |-> body, result |-> result]

GqIdle ==
    [dex |-> None, pc |-> "idle", ret |-> RetNone, retries |-> 0, backoff |-> 0,
     attempt |-> 0, log |-> <<>>, sleeps |-> <<>>]

\* for attempt in range(retries)
GqInLoop_off_by_one(q) == q.attempt <= q.retries
GqInLoop(q) == q.attempt < q.retries

\* time.sleep(backoff * (2 ** attempt))
GqSleep_linear(q) == q.backoff * (2 * q.attempt)
GqSleep(q) == q.backoff * Pow2(q.attempt)

GqInit ==
    /\ gq \in { [GqIdle EXCEPT !.pc = "try", !.retries = r, !.backoff = b, !.dex = d] :
                  r \in 0..MaxRetries, b \in 1..MaxBackoff, d \in Dexes }
    /\ pr = PrIdle
    /\ rs = RsIdle
    /\ cy = CyIdle

\* lines 52-56: the request succeeds and the parsed body is returned
GqAttemptOk(body) ==
    /\ gq.pc = "try"
    /\ GqInLoop(gq)
    /\ gq' = [gq EXCEPT !.pc = "returned", !.ret = RetData(body),
                        !.log = Append(@, Attempt("ok", body))]
    /\ UNCHANGED <<pr, rs, cy>>

\* lines 57-59: a RequestException is logged, then the backoff sleep
GqAttemptFail(kind) ==
    /\ gq.pc = "try"
    /\ GqInLoop(gq)
    /\ gq' = [gq EXCEPT !.log = Append(@, Attempt(kind, NoBody)),
                        !.sleeps = Append(@, GqSleep(gq)),
                        !.attempt = @ + 1]
    /\ UNCHANGED <<pr, rs, cy>>

\* an exception that is no RequestException is not caught by line 57
GqAttemptRaises ==
    /\ gq.pc = "try"
    /\ GqInLoop(gq)
    /\ gq' = [gq EXCEPT !.pc = "raised", !.ret = RetRaise,
                        !.log = Append(@, Attempt("other", NoBody))]
    /\ UNCHANGED <<pr, rs, cy>>

\* line 60: the loop is exhausted
GqExhausted ==
    /\ gq.pc = "try"
    /\ ~GqInLoop(gq)
    /\ gq' = [gq EXCEPT !.pc = "returned", !.ret = RetNone]
    /\ UNCHANGED <<pr, rs, cy>>

GqNext ==
    \/ \E body \in QuoteBodies : GqAttemptOk(body)
    \/ \E kind \in TransportFailures : GqAttemptFail(kind)
    \/ GqAttemptRaises
    \/ GqExhausted

SpecQuote == GqInit /\ [][GqNext]_vars

GqFailedTransport(i) == gq.log[i].result \in TransportFailures

\* C6: get_quote makes at most `retries` HTTP attempts; a successful attempt is
\* the last one and its body is what is returned; when all `retries` attempts
\* fail with a transport/protocol failure the call returns None; the call
\* raises only on an exception that is no transport/protocol failure.
C6_BoundedRetries ==
    gq.pc # "idle" =>
        /\ Len(gq.log) <= gq.retries
        /\ \A i \in 1..Len(gq.log) :
              gq.log[i].result = "ok" =>
                  /\ i = Len(gq.log)
                  /\ gq.pc = "returned"
                  /\ gq.ret = RetData(gq.log[i].body)
                  /\ \A j \in 1..(i - 1) : GqFailedTransport(j)
        /\ (gq.pc = "returned" /\ gq.ret.kind = "data") =>
              (Len(gq.log) > 0 /\ gq.log[Len(gq.log)].result = "ok")
        /\ (/\ gq.pc # "try"
            /\ Len(gq.log) = gq.retries
            /\ \A i \in 1..Len(gq.log) : GqFailedTransport(i)) =>
              (gq.pc = "returned" /\ gq.ret = RetNone)
        /\ gq.pc = "raised" =>
              (Len(gq.log) > 0 /\ gq.log[Len(gq.log)].result = "other")

\* three failed attempts (the default bound), then None
C6_Witness ==
    /\ gq.pc = "returned"
    /\ gq.retries = 3
    /\ Len(gq.log) = 3
    /\ \A i \in 1..3 : GqFailedTransport(i)
    /\ gq.ret = RetNone

\* C7: a call whose first retries-1 attempts fail transiently and whose attempt
\* number `retries` succeeds returns that response, having slept backoff*2^0,
\* ..., backoff*2^(retries-2) in that order: backoff*(2^(retries-1) - 1) in all.
C7_BackoffSchedule ==
    (/\ gq.pc = "returned"
     /\ gq.retries >= 1
     /\ Len(gq.log) = gq.retries
     /\ gq.log[gq.retries].result = "ok") =>
        /\ gq.ret = RetData(gq.log[gq.retries].body)
        /\ gq.sleeps = [i \in 1..(gq.retries - 1) |-> gq.backoff * Pow2(i - 1)]
        /\ SumSeq(gq.sleeps) = gq.backoff * (Pow2(gq.retries - 1) - 1)

\* two failures, then success on the third attempt, with a backoff base of 2
C7_Witness ==
    /\ gq.pc = "returned"
    /\ gq.retries = 3
    /\ gq.backoff = 2
    /\ Len(gq.log) = 3
    /\ gq.log[3].result = "ok"
    /\ gq.sleeps = <<2, 4>>

\* C15: get_quote sleeps only between attempts: a call all of whose `retries`
\* attempts failed has slept retries-1 times, backoff*(2^(retries-1) - 1) in
\* all, when it returns None.
C15_SleepsOnlyBetweenAttempts ==
    (/\ gq.pc = "returned"
     /\ gq.retries >= 1
     /\ Len(gq.log) = gq.retries
     /\ \A i \in 1..Len(gq.log) : GqFailedTransport(i)) =>
        /\ gq.ret = RetNone
        /\ Len(gq.sleeps) = gq.retries - 1
        /\ SumSeq(gq.sleeps) = gq.backoff * (Pow2(gq.retries - 1) - 1)

(***************************************************************************)
(* is_pair_tradable                                                        *)
(***************************************************************************)
Mints == {TOKENS[i] : i \in 1..Len(TOKENS)}

ProbeBodies ==
    {ArrayBody, ScalarBody}
        \cup {ObjectBody(e, FALSE, <<>>) : e \in BOOLEAN}
        \cup {ObjectBody(e, TRUE, p) : e \in BOOLEAN, p \in SeqsUpTo(HopValues, MaxHops)}

\* line 111: test_dex = SUPPORTED_DEXES[0]
TestDex == SUPPORTED_DEXES[1]

\* lines 119-132, on the outcome of the one request: "True", "False", or
\* "raise" for an exception that `except requests.RequestException` lets pass
\* ("error" in data on a body that is no container is a TypeError)
ProbeEval_route_first(o) ==
    IF o.result \in TransportFailures THEN "False"
    ELSE IF o.result # "ok" THEN "raise"
    ELSE IF o.body.shape = "scalar" THEN "raise"
    ELSE IF o.body.hasRoute /\ Len(o.body.routePlan) > 0 THEN "True"
    ELSE "False"
ProbeEval(o) ==
    IF o.result \in TransportFailures THEN "False"
    ELSE IF o.result # "ok" THEN "raise"
    ELSE IF o.body.shape = "scalar" THEN "raise"
    ELSE IF o.body.error THEN "False"
    ELSE IF o.body.hasRoute /\ Len(o.body.routePlan) > 0 THEN "True"
    ELSE "False"

PrInit ==
    /\ pr \in { [PrIdle EXCEPT !.pc = "call", !.input = a, !.output = b] :
                  a \in Mints, b \in Mints }
    /\ pr.input # pr.output
    /\ gq = GqIdle
    /\ rs = RsIdle
    /\ cy = CyIdle

\* the single requests.get of line 120 and what lines 121-132 make of it
PrRequest(o) ==
    /\ pr.pc = "call"
    /\ pr' = [pr EXCEPT !.requests = Append(@, TestDex),
                        !.outcome = o,
                        !.pc = IF ProbeEval(o) = "raise" THEN "raised" ELSE "returned",
                        !.ret = IF ProbeEval(o) = "raise" THEN "unset" ELSE ProbeEval(o)]
    /\ UNCHANGED <<gq, rs, cy>>

PrTransportFailure == \E kind \in TransportFailures : PrRequest(HttpFail(kind))
PrResponse == \E body \in ProbeBodies : PrRequest(HttpOk(body))
PrUnexpected == PrRequest(HttpFail("other"))

PrNext ==
    \/ PrTransportFailure
    \/ PrResponse
    \/ PrUnexpected

SpecProbe == PrInit /\ [][PrNext]_vars

PrRouteNonEmpty == pr.outcome.body.hasRoute /\ Len(pr.outcome.body.routePlan) > 0

\* C9: is_pair_tradable issues exactly one request, to SUPPORTED_DEXES[0], and
\* returns True exactly when the request succeeded, the body has no error field
\* and routePlan is present and non-empty; an error field beside a non-empty
\* routePlan gives False, and a transport failure gives False without raising.
C9_ProbeContract ==
    pr.pc \in {"returned", "raised"} =>
        /\ pr.requests = <<SUPPORTED_DEXES[1]>>
        /\ (pr.pc = "returned" /\ pr.ret = "True") <=>
              (pr.outcome.result = "ok" /\ ~pr.outcome.body.error /\ PrRouteNonEmpty)
        /\ (pr.outcome.result = "ok" /\ pr.outcome.body.error /\ PrRouteNonEmpty) =>
              (pr.pc = "returned" /\ pr.ret = "False")
        /\ pr.outcome.result \in TransportFailures =>
              (pr.pc = "returned" /\ pr.ret = "False")

\* a body with an error field and a non-empty route plan: False
C9_Witness ==
    /\ pr.pc = "returned"
    /\ pr.outcome.result = "ok"
    /\ pr.outcome.body.error
    /\ PrRouteNonEmpty
    /\ pr.ret = "False"

\* C16: the probe goes through get_quote: a probe request that met a transport
\* failure is retried up to get_quote's bound, so a probe that returns False
\* on a transport failure has made DEFAULT_RETRIES requests.
C16_ProbeRetriesLikeGetQuote ==
    (pr.pc = "returned" /\ pr.outcome.result \in TransportFailures) =>
        Len(pr.requests) = DEFAULT_RETRIES

(***************************************************************************)
(* process_swap_direction                                                  *)
(***************************************************************************)
\* what the future of one venue's get_quote call can hold
ResolveReturns ==
    {RetNone, RetRaise, RetData(ScalarBody), RetData(ObjectBody(FALSE, FALSE, <<>>))}
        \cup {RetData(ObjectBody(FALSE, TRUE, p)) : p \in SeqsUpTo(HopValues, MaxHops)}

\* line 82: future.result() re-raises what get_quote raised; line 83:
\* "routePlan" not in quote_data is a TypeError on a body that is no container
ResultRaises(ret) ==
    \/ ret.kind = "raise"
    \/ ret.kind = "data" /\ ret.data.shape = "scalar"

\* line 83: not quote_data or "routePlan" not in quote_data
NoData(ret) ==
    \/ ret.kind = "none"
    \/ ret.kind = "data" /\ ret.data.shape \in {"object", "array"} /\ ~ret.data.hasRoute

\* lines 87-92: route["swapInfo"], int(...) or the division raises
HopRaises(hop) == ~hop.ok \/ hop.inAmount = 0

\* lines 88-92: price = (outAmount / 10**6) / (inAmount / 10**6)
HopPrice(hop) == RatDiv(Rat(hop.outAmount, DECIMALS), Rat(hop.inAmount, DECIMALS))

\* line 95: price < 0 or price > 100
SanityRejected_no_ceiling(price) == RatLT(price, Zero)
SanityRejected(price) == RatLT(price, Zero) \/ RatGT(price, RatOfInt(PRICE_CEILING))

\* line 99: price > best_buy_price
Better_or_equal(price, best) == RatGE(price, best.price)
Better(price, best) == RatGT(price, best.price)

\* lines 92-101 for a hop that does not raise
HopUpdate_keeps_latest(best, dex, hop) ==
    LET price == HopPrice(hop)
    IN  IF SanityRejected(price) THEN best ELSE Best(price, dex)
HopUpdate(best, dex, hop) ==
    LET price == HopPrice(hop)
    IN  IF SanityRejected(price) THEN best
        ELSE IF Better(price, best) THEN Best(price, dex)
        ELSE best

\* line 86: the for loop takes the hops one after the other
NextHopIndex_first_only(plan, i) == Len(plan) + 1
NextHopIndex(plan, i) == i + 1

\* lines 102-103: the exception is logged and the as_completed loop goes on
Caught_propagates(r) ==
    [r EXCEPT !.pc = "done", !.raised = TRUE, !.caught = @ \cup {r.cur}]
Caught(r) ==
    [r EXCEPT !.pc = "loop", !.caught = @ \cup {r.cur},
              !.processed = @ \cup {r.cur}]

\* line 79: as_completed yields the future of dex
Take(r, dex) ==
    [r EXCEPT !.pending = @ \ {dex}, !.cur = dex, !.order = Append(@, dex), !.idx = 0]

RsPlan(r) == r.resp[r.cur].data.routePlan

RsInit ==
    /\ rs \in { [RsIdle EXCEPT !.pc = "loop", !.resp = f, !.pending = Dexes] :
                  f \in [Dexes -> ResolveReturns] }
    /\ gq = GqIdle
    /\ pr = PrIdle
    /\ cy = CyIdle

\* lines 79-82, 102-103: the venue's future holds an exception
FutureRaised(dex) ==
    /\ rs.pc = "loop"
    /\ dex \in rs.pending
    /\ ResultRaises(rs.resp[dex])
    /\ rs' = Caught(Take(rs, dex))
    /\ UNCHANGED <<gq, pr, cy>>

\* lines 79-85: no usable data from the venue
FutureNoData(dex) ==
    /\ rs.pc = "loop"
    /\ dex \in rs.pending
    /\ ~ResultRaises(rs.resp[dex])
    /\ NoData(rs.resp[dex])
    /\ rs' = [Take(rs, dex) EXCEPT !.processed = @ \cup {dex}]
    /\ UNCHANGED <<gq, pr, cy>>

\* lines 79-86: the venue has a route plan; an empty one ends at once
FutureRoute(dex) ==
    /\ rs.pc = "loop"
    /\ dex \in rs.pending
    /\ ~ResultRaises(rs.resp[dex])
    /\ ~NoData(rs.resp[dex])
    /\ rs' = IF rs.resp[dex].data.routePlan = <<>>
             THEN [Take(rs, dex) EXCEPT !.processed = @ \cup {dex}]
             ELSE [Take(rs, dex) EXCEPT !.pc = "hops", !.idx = 1]
    /\ UNCHANGED <<gq, pr, cy>>

\* lines 87-92, 102-103: the hop raises, the rest of the venue's plan is dropped
HopFails ==
    /\ rs.pc = "hops"
    /\ HopRaises(RsPlan(rs)[rs.idx])
    /\ rs' = Caught(rs)
    /\ UNCHANGED <<gq, pr, cy>>

\* lines 87-101: one pass of the for loop
HopStep ==
    /\ rs.pc = "hops"
    /\ ~HopRaises(RsPlan(rs)[rs.idx])
    /\ LET next == NextHopIndex(RsPlan(rs), rs.idx)
           last == next > Len(RsPlan(rs))
       IN  rs' = [rs EXCEPT !.best = HopUpdate(@, rs.cur, RsPlan(rs)[rs.idx]),
                            !.idx = next,
                            !.pc = IF last THEN "loop" ELSE "hops",
                            !.processed = IF last THEN @ \cup {rs.cur} ELSE @]
    /\ UNCHANGED <<gq, pr, cy>>

\* line 105
RsReturn ==
    /\ rs.pc = "loop"
    /\ rs.pending = {}
    /\ rs' = [rs EXCEPT !.pc = "done"]
    /\ UNCHANGED <<gq, pr, cy>>

RsNext ==
    \/ \E dex \in Dexes : FutureRaised(dex)
    \/ \E dex \in Dexes : FutureNoData(dex)
    \/ \E dex \in Dexes : FutureRoute(dex)
    \/ HopFails
    \/ HopStep
    \/ RsReturn

SpecResolve == RsInit /\ [][RsNext]_vars

(***************************************************************************)
(* process_swap_direction as a function of the venues' responses and of    *)
(* the order in which as_completed yields them (lines 74-105).             *)
(***************************************************************************)
RECURSIVE RouteFold(_, _, _, _)
RouteFold(best, dex, plan, i) ==
    IF i > Len(plan) THEN best
    ELSE IF HopRaises(plan[i]) THEN best
    ELSE RouteFold(HopUpdate(best, dex, plan[i]), dex, plan, NextHopIndex(plan, i))

VenueFold(best, dex, ret) ==
    IF ResultRaises(ret) \/ NoData(ret) THEN best
    ELSE RouteFold(best, dex, ret.data.routePlan, 1)

RECURSIVE ResolveFrom(_, _, _, _)
ResolveFrom(best, resp, order, k) ==
    IF k > Len(order) THEN best
    ELSE ResolveFrom(VenueFold(best, order[k], resp[order[k]]), resp, order, k + 1)

Resolve(resp, order) == ResolveFrom(InitBest, resp, order, 1)

\* the orders in which the venues' futures can complete
Orders ==
    { o \in [1..Len(SUPPORTED_DEXES) -> Dexes] :
        \A i, j \in 1..Len(SUPPORTED_DEXES) : i # j => o[i] # o[j] }

(***************************************************************************)
(* The properties of process_swap_direction, stated on the responses.      *)
(***************************************************************************)
Ceiling == <<100, 1>>

\* a hop on which the price computation raises
RaisingHop(h) == ~h.ok \/ h.inAmount = 0

\* the hops of a venue's route plan, and those before its first raising hop
HasPlan(ret) == ret.kind = "data" /\ ret.data.shape = "object" /\ ret.data.hasRoute
PlanOf(ret) == IF HasPlan(ret) THEN ret.data.routePlan ELSE <<>>
AllHops(ret) == {PlanOf(ret)[i] : i \in 1..Len(PlanOf(ret))}
ReachedHops(ret) ==
    { PlanOf(ret)[i] : i \in { k \in 1..Len(PlanOf(ret)) :
                                 \A j \in 1..k : ~RaisingHop(PlanOf(ret)[j]) } }

\* outAmount / inAmount, and whether it lies in (0, 100]
Quotient(h) == Rat(h.outAmount, h.inAmount)
InRange(p) == RatGT(p, Zero) /\ RatLE(p, Ceiling)
ValidPrices(hops) == {Quotient(h) : h \in {g \in hops : ~RaisingHop(g) /\ InRange(Quotient(g))}}

MaxPrice(S) == IF S = {} THEN Zero ELSE CHOOSE p \in S : \A q \in S : RatLE(q, p)

VenueRaises(ret) ==
    \/ ret.kind = "raise"
    \/ ret.kind = "data" /\ ret.data.shape = "scalar"
    \/ \E h \in AllHops(ret) : RaisingHop(h)

RsDone == rs.pc = "done"

\* C1: the pair process_swap_direction returns is (0, None) or (p, venue) with
\* 0 < p <= 100 and venue one of SUPPORTED_DEXES, whatever the venues answered.
C1_ReturnedPriceInRange ==
    RsDone =>
        \/ rs.best.price = Zero /\ rs.best.dex = None
        \/ InRange(rs.best.price) /\ rs.best.dex \in Dexes

\* a venue offers a hop above the ceiling and a hop at the ceiling: 100 wins
C1_Witness ==
    /\ RsDone
    /\ \E d \in Dexes : Hop(1, 101) \in AllHops(rs.resp[d])
    /\ \E d \in Dexes : Hop(-1, 1) \in AllHops(rs.resp[d])
    /\ rs.best.price = Ceiling

Tied == {d \in Dexes : rs.best.price \in ValidPrices(ReachedHops(rs.resp[d]))}

\* C3, as claimed: every completion order of the venues' futures gives the
\* same returned (price, venue) pair.
C3_SameForEveryOrder ==
    RsDone => \A o \in Orders : Resolve(rs.resp, o) = rs.best

\* C3, amended: every completion order gives the same returned price, and the
\* same venue unless two venues attain that price; then the venue among them
\* whose future completed first is returned.
C3_SamePriceForEveryOrder ==
    RsDone =>
        /\ \A o \in Orders :
              /\ Resolve(rs.resp, o).price = rs.best.price
              /\ Cardinality(Tied) <= 1 => Resolve(rs.resp, o).dex = rs.best.dex
        /\ Tied # {} =>
              /\ rs.best.dex \in Tied
              /\ \A i \in 1..Len(rs.order) :
                    rs.order[i] \in Tied =>
                        \E j \in 1..i : rs.order[j] = rs.best.dex

\* both venues offer the same best price; the second in the list completed first
C3_Witness ==
    /\ RsDone
    /\ Cardinality(Tied) = 2
    /\ rs.order = <<SUPPORTED_DEXES[2], SUPPORTED_DEXES[1]>>
    /\ rs.best.dex = SUPPORTED_DEXES[2]

\* None, a body without routePlan, or an empty routePlan
EmptyAnswer(ret) ==
    \/ ret = RetNone
    \/ ret.kind = "data" /\ ret.data.shape = "object"
          /\ (~ret.data.hasRoute \/ ret.data.routePlan = <<>>)

\* C4: when every venue answers None, a body without routePlan or an empty
\* routePlan, process_swap_direction returns (0, None) and raises nothing.
C4_AllEmptyGivesZeroNone ==
    (RsDone /\ \A d \in Dexes : EmptyAnswer(rs.resp[d])) =>
        /\ ~rs.raised
        /\ rs.caught = {}
        /\ rs.best = Best(Zero, None)

\* one venue unavailable, the other with an empty route plan
C4_Witness ==
    /\ RsDone
    /\ rs.resp[SUPPORTED_DEXES[1]] = RetNone
    /\ rs.resp[SUPPORTED_DEXES[2]] = RetData(ObjectBody(FALSE, TRUE, <<>>))
    /\ rs.best = Best(Zero, None)

\* C5: when the query or the processing of a venue raises, every venue's
\* response is still taken and handled, no exception leaves
\* process_swap_direction, and the returned price is at least every valid
\* price among the reached hops of the other venues.
C5_PartialFailureTolerance ==
    RsDone =>
        \A d \in Dexes :
            VenueRaises(rs.resp[d]) =>
                /\ ~rs.raised
                /\ rs.pending = {}
                /\ rs.processed = Dexes
                /\ \A e \in Dexes \ {d} :
                      \A p \in ValidPrices(ReachedHops(rs.resp[e])) :
                          RatGE(rs.best.price, p)

\* the venue that completes first raises on its second hop; the other
\* venue's price is returned
C5_Witness ==
    /\ RsDone
    /\ Len(rs.order) = 2
    /\ PlanOf(rs.resp[rs.order[1]]) = <<Hop(2, 2), Hop(0, 1)>>
    /\ rs.order[1] \in rs.caught
    /\ PlanOf(rs.resp[rs.order[2]]) = <<Hop(1, 100)>>
    /\ rs.best = Best(Ceiling, rs.order[2])

(***************************************************************************)
(* main: the scan cycle                                                    *)
(***************************************************************************)
\* line 36: ARBITRAGE_THRESHOLD = 0.1 (percent)
ARBITRAGE_THRESHOLD == <<1, 10>>

Directions == {"A->B", "B->A"}

\* line 148: itertools.combinations(tokens, 2), in the order of the token list
RECURSIVE PairsFrom(_, _, _)
PairsFrom(tokens, i, j) ==
    IF i >= Len(tokens) THEN <<>>
    ELSE IF j > Len(tokens) THEN PairsFrom(tokens, i + 1, i + 2)
    ELSE <<(<<tokens[i], tokens[j]>>)>> \o PairsFrom(tokens, i, j + 1)

token_pairs == PairsFrom(cy.tokens, 1, 2)

\* what the probe's single request can meet in a cycle
CycleProbeOutcomes ==
    { HttpFail("timeout"), HttpFail("status"), HttpOk(ScalarBody),
      HttpOk(ObjectBody(TRUE, TRUE, <<Hop(2, 2)>>)),
      HttpOk(ObjectBody(FALSE, TRUE, <<>>)),
      HttpOk(ObjectBody(FALSE, TRUE, <<Hop(2, 2)>>)) }

\* what get_quote can return for one venue in a cycle: None, or a one-hop
\* route of price 1, 2, 1/2 or 1001/1000
CycleReturns ==
    {RetNone} \cup { RetData(ObjectBody(FALSE, TRUE, <<h>>)) :
                       h \in {Hop(2, 2), Hop(1, 2), Hop(2, 1), Hop(1000, 1001)} }

ProbeRecord(pair, dir, result) ==
    [dex |-> TestDex, result |-> result, pair |-> pair, dir |-> dir]

\* line 156: is_pair_tradable(mint_a, mint_b) and is_pair_tradable(mint_b, mint_a)
PairTradable_either(ab, ba) == ab = "True" \/ ba = "True"
PairTradable(ab, ba) == ab = "True" /\ ba = "True"

\* line 206: price_diff_percentage >= ARBITRAGE_THRESHOLD
IsOpportunity_strict(pct) == RatGT(pct, ARBITRAGE_THRESHOLD)
IsOpportunity(pct) == RatGE(pct, ARBITRAGE_THRESHOLD)

\* lines 202-224: the block of a pair whose two prices are non-zero
GapBlock(pair, buy, sell) ==
    LET theoretical_sell_price == RatDiv(<<1, 1>>, buy.price)
        price_diff == RatSub(sell.price, theoretical_sell_price)
        price_diff_percentage ==
            RatMul(RatDiv(price_diff, theoretical_sell_price), <<100, 1>>)
    IN  Block(IF IsOpportunity(price_diff_percentage)
                  THEN "opportunity" ELSE "no_opportunity",
              pair, buy, sell, price_diff, price_diff_percentage)

\* the results dictionary: its entries in insertion order, each with a slot
\* per direction
Slot(set, value) == [value |-> value, set |-> set]
EmptySlots == [d \in Directions |-> Slot(FALSE, InitBest)]

IndexOfPair(results, pair) ==
    IF \E i \in 1..Len(results) : results[i].pair = pair
    THEN CHOOSE i \in 1..Len(results) : results[i].pair = pair
    ELSE 0

\* lines 186-188
PutResult_fresh_entry(results, pair, dir, value) ==
    LET i == IndexOfPair(results, pair)
        entry == [pair |-> pair,
                  slots |-> [EmptySlots EXCEPT ![dir] = Slot(TRUE, value)]]
    IN  IF i = 0 THEN Append(results, entry) ELSE [results EXCEPT ![i] = entry]
PutResult(results, pair, dir, value) ==
    LET i == IndexOfPair(results, pair)
    IN  IF i = 0
        THEN Append(results, [pair |-> pair,
                              slots |-> [EmptySlots EXCEPT ![dir] = Slot(TRUE, value)]])
        ELSE [results EXCEPT ![i].slots[dir] = Slot(TRUE, value)]

\* lines 226-230
FinalLines(opportunities) ==
    IF opportunities # <<>> THEN opportunities ELSE <<Line("no_opportunity_line")>>

CyPair == token_pairs[cy.pi]

Init ==
    /\ cy = CyFresh(1, TOKENS)
    /\ gq = GqIdle
    /\ pr = PrIdle
    /\ rs = RsIdle

\* lines 152-156: the probe of A -> B; `and` calls the second probe only when
\* the first returned True; an exception of the probe leaves main
ProbeAB(o) ==
    /\ cy.pc = "probe"
    /\ cy.pi <= Len(token_pairs)
    /\ LET r == ProbeEval(o)
       IN  cy' = [cy EXCEPT
                    !.probes = Append(@, ProbeRecord(CyPair, "A->B", r)),
                    !.pc = IF r = "raise" THEN "crashed"
                           ELSE IF r = "True" THEN "probe2" ELSE "probe",
                    !.pi = IF r = "False" THEN @ + 1 ELSE @]
    /\ UNCHANGED <<gq, pr, rs>>

\* lines 156-159: the probe of B -> A
ProbeBA(o) ==
    /\ cy.pc = "probe2"
    /\ LET r == ProbeEval(o)
       IN  cy' = [cy EXCEPT
                    !.probes = Append(@, ProbeRecord(CyPair, "B->A", r)),
                    !.pc = IF r = "raise" THEN "crashed" ELSE "probe",
                    !.pi = IF r = "raise" THEN @ ELSE @ + 1,
                    !.tradable_pairs =
                        IF r # "raise" /\ PairTradable("True", r)
                        THEN Append(@, CyPair) ELSE @]
    /\ UNCHANGED <<gq, pr, rs>>

\* lines 161-166: no tradable pair, the report says so
NoTradablePairs_silent ==
    /\ cy.pc = "probe"
    /\ cy.pi > Len(token_pairs)
    /\ cy.tradable_pairs = <<>>
    /\ cy' = [cy EXCEPT !.pc = "sleep"]
    /\ UNCHANGED <<gq, pr, rs>>
NoTradablePairs ==
    /\ cy.pc = "probe"
    /\ cy.pi > Len(token_pairs)
    /\ cy.tradable_pairs = <<>>
    /\ LET content == Append(cy.log_content, Line("no_tradable_pairs"))
       IN  cy' = [cy EXCEPT !.log_content = content, !.report = content,
                            !.emitted = @ + 1, !.pc = "sleep"]
    /\ UNCHANGED <<gq, pr, rs>>

\* lines 168-179: one task per tradable pair and direction
Dispatch ==
    /\ cy.pc = "probe"
    /\ cy.pi > Len(token_pairs)
    /\ cy.tradable_pairs # <<>>
    /\ cy' = [cy EXCEPT
                !.dispatched = { <<cy.tradable_pairs[i], d>> :
                                   i \in 1..Len(cy.tradable_pairs), d \in Directions },
                !.pc = "collect"]
    /\ UNCHANGED <<gq, pr, rs>>

\* a task's process_swap_direction returns, in a worker thread
TaskFinishes(task, resp, order) ==
    /\ cy.pc = "collect"
    /\ task \in cy.dispatched
    /\ \A f \in cy.finished : f.task # task
    /\ cy' = [cy EXCEPT !.finished = @ \cup {[task |-> task, value |-> Resolve(resp, order)]}]
    /\ UNCHANGED <<gq, pr, rs>>

\* lines 182-188: as_completed yields a finished future, its result is stored
Collect(f) ==
    /\ cy.pc = "collect"
    /\ f \in cy.finished
    /\ f.task \notin cy.collected
    /\ cy' = [cy EXCEPT !.collected = @ \cup {f.task},
                        !.results = PutResult(@, f.task[1], f.task[2], f.value)]
    /\ UNCHANGED <<gq, pr, rs>>

\* lines 182, 170: every future was yielded, the executor is left
AllCollected_first_completed ==
    /\ cy.pc = "collect"
    /\ cy.collected # {}
    /\ cy' = [cy EXCEPT !.pc = "evaluate", !.ri = 1]
    /\ UNCHANGED <<gq, pr, rs>>
AllCollected ==
    /\ cy.pc = "collect"
    /\ cy.collected = cy.dispatched
    /\ cy' = [cy EXCEPT !.pc = "evaluate", !.ri = 1]
    /\ UNCHANGED <<gq, pr, rs>>

\* lines 193, 198-199: a pair without both directions, or with a price of 0,
\* is passed over
SkipPair_losing_round_trip(buy, sell) ==
    \/ ~(buy.set /\ sell.set)
    \/ RatLT(RatMul(buy.value.price, sell.value.price), <<1, 1>>)
SkipPair(buy, sell) ==
    \/ ~(buy.set /\ sell.set)
    \/ buy.value.price = Zero
    \/ sell.value.price = Zero

\* lines 192-224: one entry of results
EvaluatePair ==
    /\ cy.pc = "evaluate"
    /\ cy.ri <= Len(cy.results)
    /\ LET e == cy.results[cy.ri]
           buy == e.slots["A->B"]
           sell == e.slots["B->A"]
           skip == SkipPair(buy, sell)
           block == GapBlock(e.pair, buy.value, sell.value)
       IN  cy' = [cy EXCEPT
                    !.ri = @ + 1,
                    !.arbitrage_opportunities =
                        IF ~skip /\ block.kind = "opportunity" THEN Append(@, block) ELSE @,
                    !.log_content =
                        IF ~skip /\ block.kind # "opportunity" THEN Append(@, block) ELSE @]
    /\ UNCHANGED <<gq, pr, rs>>

\* lines 226-233: the opportunities or the no-opportunity line, then log_results
EmitReport ==
    /\ cy.pc = "evaluate"
    /\ cy.ri > Len(cy.results)
    /\ LET content == cy.log_content \o FinalLines(cy.arbitrage_opportunities)
       IN  cy' = [cy EXCEPT !.log_content = content, !.report = content,
                            !.emitted = @ + 1, !.pc = "sleep"]
    /\ UNCHANGED <<gq, pr, rs>>

\* lines 165-166, 236: the interval elapses and the loop starts over
Sleep ==
    /\ cy.pc = "sleep"
    /\ cy.cycle < MaxCycles
    /\ cy' = CyFresh(cy.cycle + 1, cy.tokens)
    /\ UNCHANGED <<gq, pr, rs>>

Next ==
    \/ \E o \in CycleProbeOutcomes : ProbeAB(o)
    \/ \E o \in CycleProbeOutcomes : ProbeBA(o)
    \/ NoTradablePairs
    \/ Dispatch
    \/ \E task \in cy.dispatched, resp \in [Dexes -> CycleReturns], order \in Orders :
          TaskFinishes(task, resp, order)
    \/ \E f \in cy.finished : Collect(f)
    \/ AllCollected
    \/ EvaluatePair
    \/ EmitReport
    \/ Sleep

Spec == Init /\ [][Next]_vars

(***************************************************************************)
(* The scan cycle with one more entry in TOKEN_MINTS: three tokens, hence  *)
(* three pairs (line 148, itertools.combinations), the smallest            *)
(* configuration in which results holds more than one pair.  Every venue   *)
(* answers None or a one-hop route of price 1.                             *)
(***************************************************************************)
ThreeTokens == Append(TOKENS, "SOL")

ParityReturns == {RetNone, RetData(ObjectBody(FALSE, TRUE, <<Hop(2, 2)>>))}

InitThreeTokens ==
    /\ cy = CyFresh(1, ThreeTokens)
    /\ gq = GqIdle
    /\ pr = PrIdle
    /\ rs = RsIdle

NextThreeTokens ==
    \/ \E o \in CycleProbeOutcomes : ProbeAB(o)
    \/ \E o \in CycleProbeOutcomes : ProbeBA(o)
    \/ NoTradablePairs
    \/ Dispatch
    \/ \E task \in cy.dispatched, resp \in [Dexes -> ParityReturns], order \in Orders :
          TaskFinishes(task, resp, order)
    \/ \E f \in cy.finished : Collect(f)
    \/ AllCollected
    \/ EvaluatePair
    \/ EmitReport
    \/ Sleep

SpecThreeTokens == InitThreeTokens /\ [][NextThreeTokens]_vars

(***************************************************************************)
(* The properties of the scan cycle.                                       *)
(***************************************************************************)
ProbeSaid(pair, dir, result) ==
    \E k \in 1..Len(cy.probes) :
        cy.probes[k] = ProbeRecord(pair, dir, result)

\* the pair blocks written so far in this cycle
PairBlocks(content) == {content[k] : k \in 1..Len(content)}
CycleBlocks ==
    PairBlocks(cy.log_content) \cup PairBlocks(cy.arbitrage_opportunities)
        \cup PairBlocks(cy.report)

\* C8: a pair is in tradable_pairs only if the probe returned True for A->B and
\* for B->A in this cycle; a pair one of whose probes returned False has no
\* task dispatched and no block in the cycle's report.
C8_OnlyBidirectionalPairs ==
    cy.pc # "idle" =>
        /\ \A i \in 1..Len(cy.tradable_pairs) :
              /\ ProbeSaid(cy.tradable_pairs[i], "A->B", "True")
              /\ ProbeSaid(cy.tradable_pairs[i], "B->A", "True")
        /\ \A k \in 1..Len(cy.probes) :
              cy.probes[k].result = "False" =>
                  /\ \A i \in 1..Len(cy.tradable_pairs) :
                        cy.tradable_pairs[i] # cy.probes[k].pair
                  /\ \A t \in cy.dispatched : t[1] # cy.probes[k].pair
                  /\ \A f \in cy.finished : f.task[1] # cy.probes[k].pair
                  /\ \A b \in CycleBlocks : b.pair # cy.probes[k].pair

\* A->B probes True, B->A probes False: the cycle's report is written without
\* the pair and without any task
C8_Witness ==
    /\ cy.pc = "sleep"
    /\ cy.emitted = 1
    /\ ProbeSaid(token_pairs[1], "A->B", "True")
    /\ ProbeSaid(token_pairs[1], "B->A", "False")
    /\ cy.dispatched = {}
    /\ cy.report = <<Line("header"), Line("no_tradable_pairs")>>

\* 100 * (s - 1/b) / (1/b) = 100 * (s*b - 1), compared with 0.1 and with 0
GapPercent(b, s) == Rat(100 * (s[1] * b[1] - s[2] * b[2]), s[2] * b[2])
GapAtLeastThreshold(b, s) == 1000 * s[1] * b[1] >= 1001 * s[2] * b[2]
GapIsThreshold(b, s) == 1000 * s[1] * b[1] = 1001 * s[2] * b[2]
Parity(b, s) == s[1] * b[1] = s[2] * b[2]

\* C10: in an emitted report every pair with both resolved prices non-zero is
\* an opportunity exactly when gapPercent = 100*(sell - 1/buy)/(1/buy) is at
\* least ARBITRAGE_THRESHOLD: a gap equal to the threshold is an opportunity,
\* and sell = 1/buy gives gapPercent 0 and "no opportunity".
C10_Classification ==
    cy.pc = "sleep" =>
        \A i \in 1..Len(cy.results) :
            LET e == cy.results[i]
                b == e.slots["A->B"].value.price
                s == e.slots["B->A"].value.price
            IN  (e.slots["A->B"].set /\ e.slots["B->A"].set /\ b # Zero /\ s # Zero) =>
                    \E k \in 1..Len(cy.report) :
                        /\ cy.report[k].pair = e.pair
                        /\ cy.report[k].kind \in {"opportunity", "no_opportunity"}
                        /\ cy.report[k].pct = GapPercent(b, s)
                        /\ cy.report[k].kind = "opportunity" <=> GapAtLeastThreshold(b, s)
                        /\ GapIsThreshold(b, s) => cy.report[k].kind = "opportunity"
                        /\ Parity(b, s) =>
                              /\ cy.report[k].pct = Zero
                              /\ cy.report[k].kind = "no_opportunity"

\* buy at 1, sell at 1.001: the gap is exactly 0.1 percent, an opportunity
C10_Witness ==
    /\ cy.pc = "sleep"
    /\ \E k \in 1..Len(cy.report) :
          /\ cy.report[k].kind = "opportunity"
          /\ cy.report[k].buy.price = <<1, 1>>
          /\ cy.report[k].sell.price = <<1001, 1000>>
          /\ cy.report[k].pct = ARBITRAGE_THRESHOLD

\* buy at 2, sell at 1/2: the round trip breaks even, no opportunity
C10_ParityReached ==
    /\ cy.pc = "sleep"
    /\ \E k \in 1..Len(cy.report) :
          /\ cy.report[k].kind = "no_opportunity"
          /\ cy.report[k].buy.price = <<2, 1>>
          /\ cy.report[k].sell.price = <<1, 2>>
          /\ cy.report[k].pct = Zero

\* the value the task of a pair and direction returned in this cycle
TaskValue(pair, dir) ==
    (CHOOSE f \in cy.finished : f.task = <<pair, dir>>).value

\* the positions of the report that hold a block of the pair (a line of text
\* carries no pair)
EntriesOf(report, pair) == {k \in 1..Len(report) : report[k].pair = pair}

\* C11: in an emitted report a tradable pair whose buy or sell price resolved
\* to 0 has no entry at all, and a tradable pair with both prices non-zero has
\* exactly one entry, classified either "opportunity" or "no_opportunity",
\* whatever the sign or size of its gap.
C11_EntryPerPricedPair ==
    (cy.pc = "sleep" /\ cy.tradable_pairs # <<>>) =>
        \A i \in 1..Len(cy.tradable_pairs) :
            LET pair == cy.tradable_pairs[i]
                buy == TaskValue(pair, "A->B").price
                sell == TaskValue(pair, "B->A").price
                entries == EntriesOf(cy.report, pair)
            IN  IF buy = Zero \/ sell = Zero
                THEN entries = {}
                ELSE /\ Cardinality(entries) = 1
                     /\ \A k \in entries :
                           /\ cy.report[k].kind \in {"opportunity", "no_opportunity"}
                           /\ cy.report[k].buy.price = buy
                           /\ cy.report[k].sell.price = sell

\* buy resolves to 1/2 and sell to 0: the report has no entry of the pair
C11_Witness ==
    /\ cy.pc = "sleep"
    /\ cy.tradable_pairs = <<token_pairs[1]>>
    /\ TaskValue(token_pairs[1], "A->B").price = <<1, 2>>
    /\ TaskValue(token_pairs[1], "B->A").price = Zero
    /\ cy.report = <<Line("header"), Line("no_opportunity_line")>>

\* buy 2 and sell 1/2 (a gap of 0), buy 1/2 and sell 1/2 (a negative gap):
\* one entry each
C11_NegativeGapReached ==
    /\ cy.pc = "sleep"
    /\ cy.tradable_pairs = <<token_pairs[1]>>
    /\ TaskValue(token_pairs[1], "A->B").price = <<1, 2>>
    /\ TaskValue(token_pairs[1], "B->A").price = <<1, 2>>
    /\ Cardinality(EntriesOf(cy.report, token_pairs[1])) = 1

\* C12: a cycle that started ends with exactly one report whatever the service
\* answers to each request (a time-out, a failure status, an unparsable body, a
\* JSON body that is not an object, an error field, missing or corrupt hops):
\* no failure leaves main before the report, a cycle that went to sleep has
\* written one report, and no cycle writes two.
C12_EveryCycleReports ==
    /\ cy.pc # "crashed"
    /\ cy.emitted <= 1
    /\ cy.pc = "sleep" => cy.emitted = 1

(***************************************************************************)
(* Further properties of process_swap_direction.                           *)
(***************************************************************************)
\* the venues' answers with those whose processing raised taken away
WithoutCaught == [d \in Dexes |-> IF d \in rs.caught THEN RetNone ELSE rs.resp[d]]

C19_FirstSeenWinsOnTie ==
    [][rs.pc # "idle" =>
          \/ rs'.best = rs.best
          \/ RatGT(rs'.best.price, rs.best.price)]_vars

\* both venues offer one hop of price 1; the venue whose future completed
\* first is still the recorded one after the other venue's hop was processed
C19_Witness ==
    /\ rs.pc = "loop"
    /\ rs.pending = {}
    /\ rs.processed = Dexes
    /\ \A d \in Dexes : PlanOf(rs.resp[d]) = <<Hop(2, 2)>>
    /\ rs.order = <<SUPPORTED_DEXES[1], SUPPORTED_DEXES[2]>>
    /\ rs.best = Best(<<1, 1>>, SUPPORTED_DEXES[1])

(***************************************************************************)
(* Further properties of the scan cycle.                                   *)
(***************************************************************************)
\* the blocks of the pairs from position i on, in the order of the pairs
RECURSIVE BlocksFrom(_, _)
BlocksFrom(pairs, i) ==
    IF i > Len(pairs) THEN <<>>
    ELSE LET buy == TaskValue(pairs[i], "A->B")
             sell == TaskValue(pairs[i], "B->A")
         IN  (IF buy.price = Zero \/ sell.price = Zero THEN <<>>
              ELSE <<GapBlock(pairs[i], buy, sell)>>) \o BlocksFrom(pairs, i + 1)

\* the report the tasks' values give when the pairs are taken in the order of
\* tradable_pairs, whatever the order in which the tasks completed
ReportInPairOrder ==
    LET blocks == BlocksFrom(cy.tradable_pairs, 1)
        found == SelectSeq(blocks, LAMBDA b : b.kind = "opportunity")
        others == SelectSeq(blocks, LAMBDA b : b.kind # "opportunity")
    IN  <<Line("header")>> \o others \o
            (IF found # <<>> THEN found ELSE <<Line("no_opportunity_line")>>)

TaskRunning(task) == task \in cy.dispatched /\ \A f \in cy.finished : f.task # task

\* C17: the pairs are evaluated and the report is written only after every
\* dispatched task has returned and its result was taken: no task of the cycle
\* is running or left aside when log_results is called.
C17_ReportAfterEveryTask ==
    (cy.pc \in {"evaluate", "sleep"} \/ cy.emitted > 0) =>
        /\ \A task \in cy.dispatched : ~TaskRunning(task) /\ task \in cy.collected
        /\ \A f \in cy.finished : f.task \in cy.dispatched
        /\ Cardinality(cy.finished) = Cardinality(cy.dispatched)

\* a report written after both tasks of the pair returned, one of them with
\* every venue unavailable
C17_Witness ==
    /\ cy.pc = "sleep"
    /\ cy.emitted = 1
    /\ Cardinality(cy.dispatched) = 2
    /\ cy.collected = cy.dispatched
    /\ TaskValue(token_pairs[1], "A->B") = InitBest
    /\ TaskValue(token_pairs[1], "B->A") = Best(<<2, 1>>, SUPPORTED_DEXES[2])

\* the slot (pair, direction) of a results dictionary, unset when absent
SlotOf(results, pair, dir) ==
    IF IndexOfPair(results, pair) = 0 THEN Slot(FALSE, InitBest)
    ELSE results[IndexOfPair(results, pair)].slots[dir]

SlotKeys == {token_pairs[i] : i \in 1..Len(token_pairs)} \X Directions

\* C18: within a cycle a slot (pair, direction) of results, once written, is
\* never written again, changed or removed; it is written with the value that
\* the task dispatched for that pair and direction returned; and a step
\* writes one slot at most, leaving every other slot as it was.
C18_WriteOnceSlots ==
    [][cy.pc \in {"probe", "probe2", "collect", "evaluate"} =>
          /\ \A k \in SlotKeys :
                LET old == SlotOf(cy.results, k[1], k[2])
                    new == SlotOf(cy'.results, k[1], k[2])
                IN  /\ old.set => new = old
                    /\ (~old.set /\ new.set) =>
                          /\ k \in cy.dispatched
                          /\ \E f \in cy.finished : f.task = k /\ f.value = new.value
          /\ Cardinality({ k \in SlotKeys :
                             SlotOf(cy.results, k[1], k[2])
                                 # SlotOf(cy'.results, k[1], k[2]) }) <= 1
          /\ \A i \in 1..Len(cy'.results) :
                \E k \in SlotKeys : k[1] = cy'.results[i].pair
                                     /\ SlotOf(cy'.results, k[1], k[2]).set]_vars

\* both slots of the pair are written, with different values
C18_Witness ==
    /\ cy.pc = "collect"
    /\ SlotOf(cy.results, token_pairs[1], "A->B") = Slot(TRUE, Best(<<1, 2>>, SUPPORTED_DEXES[1]))
    /\ SlotOf(cy.results, token_pairs[1], "B->A") = Slot(TRUE, Best(<<2, 1>>, SUPPORTED_DEXES[2]))

\* C20: a cycle without a tradable pair is a regular end of a cycle: it has
\* written one report, the header and the no-tradable-pairs line, without
\* dispatching a task (hence without a get_quote call); a cycle with
\* tradable pairs and no opportunity has written one report that ends with the
\* no-opportunity line; and from either the next cycle starts afresh.
C20_EmptyCyclesReport ==
    /\ [](cy.pc = "sleep" =>
            /\ cy.tradable_pairs = <<>> =>
                  /\ cy.emitted = 1
                  /\ cy.report = <<Line("header"), Line("no_tradable_pairs")>>
                  /\ cy.dispatched = {}
                  /\ cy.finished = {}
            /\ (cy.tradable_pairs # <<>> /\ cy.arbitrage_opportunities = <<>>) =>
                  /\ cy.emitted = 1
                  /\ cy.report[Len(cy.report)] = Line("no_opportunity_line")
                  /\ \A k \in 1..Len(cy.report) : cy.report[k].kind # "opportunity")
    /\ [][cy.pc = "sleep" => cy' = CyFresh(cy.cycle + 1, cy.tokens)]_vars

\* the first cycle found no tradable pair, wrote its report, and the next
\* cycle can start
C20_Witness ==
    /\ cy.pc = "sleep"
    /\ cy.cycle = 1
    /\ cy.tradable_pairs = <<>>
    /\ Len(cy.probes) = 2
    /\ cy.emitted = 1
    /\ ENABLED Sleep

\* a cycle with a tradable pair, a sub-threshold gap and the no-opportunity line
C20_NoOpportunityReached ==
    /\ cy.pc = "sleep"
    /\ cy.tradable_pairs # <<>>
    /\ Len(cy.report) = 3
    /\ cy.report[2].kind = "no_opportunity"
    /\ cy.report[3] = Line("no_opportunity_line")

====
